---- MODULE Spec2Model ----
(***************************************************************************)
(* Block Blast solver (src/app.js): the strategy engine suggestMoves with  *)
(* its helpers getPermutations, canFit, applyMove, calculateStrategyScore  *)
(* and renderSuggestions.                                                  *)
(*                                                                         *)
(* Boards are JavaScript arrays, i.e. mutable objects reached through      *)
(* references.  The model keeps them in a heap (address -> 8x8 grid) so    *)
(* that copying (b.map(row => [...row])) and sharing are distinguishable.  *)
(* Row and column indices are 0-based as in the source.                    *)
(***************************************************************************)
EXTENDS Integers, Sequences, FiniteSets, TLC

\* ------------------------------------------------------------------ sizes
\* The fixed board side (loops "< 8" throughout the source).
N == 8
\* detectFigures produces one pattern per inventory slot, three slots.
NumSlots == 3
\* bestScore starts at -Infinity; every score is >= 5000, so any value
\* below the least score orders the same way.
NegInfinity == -1

Idx == 0 .. (N - 1)

\* ------------------------------------------------------------ small helpers
Min(S) == CHOOSE x \in S : \A y \in S : x <= y
Max2(a, b) == IF a >= b THEN a ELSE b

RECURSIVE SumTo(_, _)
\* f[0] + ... + f[n]
SumTo(f, n) == IF n < 0 THEN 0 ELSE f[n] + SumTo(f, n - 1)

\* ------------------------------------------------------------------ pieces
\* The offsets of one row of a pattern, left to right (inner loop, line 402).
RECURSIVE RowOffsets(_, _, _)
RowOffsets(p, r, c) ==
    IF c > Len(p[r]) THEN << >>
    ELSE (IF p[r][c] = 1 THEN << [dr |-> r - 1, dc |-> c - 1] >> ELSE << >>)
         \o RowOffsets(p, r, c + 1)

\* The offsets of a pattern in row-major order (outer loop, line 401).
RECURSIVE PatternOffsets(_, _)
PatternOffsets(p, r) ==
    IF r > Len(p) THEN << >>
    ELSE RowOffsets(p, r, 1) \o PatternOffsets(p, r + 1)

\* pieces.map(p => offsets)
ToOffsets(ps) == [i \in 1 .. Len(ps) |-> PatternOffsets(ps[i], 1)]

\* .filter(p => p.length > 0)
FilterNonEmpty(os) == SelectSeq(os, LAMBDA o : Len(o) > 0)

\* suggestMoves lines 399-405
ValidPieces(ps) == FilterNonEmpty(ToOffsets(ps))

\* ------------------------------------------------------------ permutations
\* Mutant of Without: arr.slice(i + 1) alone, the elements before i are lost.
WithoutPrefix(arr, i) == SubSeq(arr, i + 1, Len(arr))

\* arr.slice(0, i).concat(arr.slice(i + 1)), i 1-based here
Without(arr, i) == SubSeq(arr, 1, i - 1) \o SubSeq(arr, i + 1, Len(arr))

RECURSIVE getPermutations(_)
RECURSIVE PermsFromReversed(_, _)
\* Mutant of PermsFrom: the loop runs from the last index down to i.
PermsFromReversed(arr, i) ==
    IF i > Len(arr) THEN << >>
    ELSE LET rest == getPermutations(Without(arr, i))
         IN  PermsFromReversed(arr, i + 1)
             \o [k \in 1 .. Len(rest) |-> << arr[i] >> \o rest[k]]

RECURSIVE PermsFrom(_, _)
\* the for loop of getPermutations from index i on
PermsFrom(arr, i) ==
    IF i > Len(arr) THEN << >>
    ELSE LET rest == getPermutations(Without(arr, i))
         IN  [k \in 1 .. Len(rest) |-> << arr[i] >> \o rest[k]]
             \o PermsFrom(arr, i + 1)

getPermutations(arr) ==
    IF Len(arr) <= 1 THEN << arr >> ELSE PermsFrom(arr, 1)

\* [...Array(n).keys()]
Keys(n) == [i \in 1 .. n |-> i - 1]

\* ------------------------------------------------------------------ canFit
RECURSIVE canFitFrom(_, _, _, _, _)
\* the for-of loop of canFit from offset k on, with its early return
canFitFrom(b, offsets, r, c, k) ==
    IF k > Len(offsets) THEN TRUE
    ELSE LET rr == r + offsets[k].dr
             cc == c + offsets[k].dc
         IN  IF rr >= N \/ cc >= N THEN FALSE
             ELSE IF b[rr][cc] = 1 THEN FALSE
             ELSE canFitFrom(b, offsets, r, c, k + 1)

\* Mutant of canFit: "return true" inside the loop, so that only the first
\* offset is checked.
canFitFirstOnly(b, offsets, r, c) ==
    LET rr == r + offsets[1].dr
        cc == c + offsets[1].dc
    IN  ~ (rr >= N \/ cc >= N \/ b[rr][cc] = 1)

canFit(b, offsets, r, c) == canFitFrom(b, offsets, r, c, 1)

\* --------------------------------------------------------------- applyMove
\* The least address not in use.
Alloc(h) == Min({a \in 0 .. Cardinality(DOMAIN h) : a \notin DOMAIN h})

\* offsets.forEach(off => nextB[r + off.dr][c + off.dc] = 1)
FillCells(g, offsets, r, c) ==
    [i \in Idx |-> [j \in Idx |->
        IF \E k \in 1 .. Len(offsets) :
              r + offsets[k].dr = i /\ c + offsets[k].dc = j
        THEN 1 ELSE g[i][j]]]

\* nextB[i].every(v => v === 1)
FullRows(g) == {i \in Idx : \A j \in Idx : g[i][j] = 1}
\* Mutant of FullCols: the column test reads nextB[i][j], i.e. scans the row.
FullColsTransposed(g) == {i \in Idx : ~ \E j \in Idx : g[i][j] = 0}

\* no nextB[j][i] === 0
FullCols(g) == {i \in Idx : ~ \E j \in Idx : g[j][i] = 0}

\* Mutant of ClearLines: the rows.forEach line is missing, rows stay filled.
ClearColsOnly(g, rows, cols) ==
    [i \in Idx |-> [j \in Idx |-> IF j \in cols THEN 0 ELSE g[i][j]]]

\* Mutant of ClearLines: the cols.forEach line is missing, columns stay filled.
ClearRowsOnly(g, rows, cols) ==
    [i \in Idx |-> [j \in Idx |-> IF i \in rows THEN 0 ELSE g[i][j]]]

\* rows.forEach(fill 0); cols.forEach(column := 0)
ClearLines(g, rows, cols) ==
    [i \in Idx |-> [j \in Idx |-> IF i \in rows \/ j \in cols THEN 0 ELSE g[i][j]]]

\* Mutant of MoveTarget: const nextB = b, the move is made in place.
MoveTargetInPlace(h, b) == b

\* The address applyMove writes to: a fresh copy of b.
MoveTarget(h, b) == Alloc(h)

\* applyMove over the heap h: the board at address b is copied, the copy is
\* filled and cleared; returns the new heap, the copy's address and the count.
applyMove(h, b, offsets, r, c) ==
    LET nextB  == MoveTarget(h, b)
        filled == FillCells(h[b], offsets, r, c)
        rows   == FullRows(filled)
        cols   == FullCols(filled)
        after  == ClearLines(filled, rows, cols)
    IN  [heap    |-> [a \in DOMAIN h \cup {nextB} |-> IF a = nextB THEN after ELSE h[a]],
         board   |-> nextB,
         cleared |-> Cardinality(rows) + Cardinality(cols)]

\* ------------------------------------------------- calculateStrategyScore
\* 3x3 window with top-left (r, c) holds no occupied cell
WindowEmpty(g, r, c) ==
    ~ \E rr \in 0 .. 2 : \E cc \in 0 .. 2 : g[r + rr][c + cc] = 1

\* Mutant of WindowBonus: the loops stop at r < 5, c < 5.
WindowBonusShort(g) ==
    50 * Cardinality({w \in (0 .. 4) \X (0 .. 4) : WindowEmpty(g, w[1], w[2])})

WindowBonus(g) ==
    50 * Cardinality({w \in (0 .. 5) \X (0 .. 5) : WindowEmpty(g, w[1], w[2])})

RECURSIVE RunScan(_, _, _, _)
\* the j loop over one line (a function Idx -> {0,1}): cur / max as in the code,
\* ending with Math.max(max, cur)
RunScan(line, j, cur, mx) ==
    IF j >= N THEN Max2(mx, cur)
    ELSE IF line[j] = 0 THEN RunScan(line, j + 1, cur + 1, mx)
         ELSE RunScan(line, j + 1, 0, Max2(mx, cur))

RowLine(g, i) == [j \in Idx |-> g[i][j]]
ColLine(g, i) == [j \in Idx |-> g[j][i]]

\* Mutant of StreakBonus: the tests read > 5.
StreakBonusStrict(g) ==
    30 * Cardinality({i \in Idx : RunScan(RowLine(g, i), 0, 0, 0) > 5})
    + 30 * Cardinality({i \in Idx : RunScan(ColLine(g, i), 0, 0, 0) > 5})

StreakBonus(g) ==
    30 * Cardinality({i \in Idx : RunScan(RowLine(g, i), 0, 0, 0) >= 5})
    + 30 * Cardinality({i \in Idx : RunScan(ColLine(g, i), 0, 0, 0) >= 5})

\* board.flat().reduce((a, b) => a + b, 0)
Occupied(g) == SumTo([i \in Idx |-> SumTo(g[i], N - 1)], N - 1)

\* Mutant of calculateStrategyScore: one bonus of 200 for any number of clears.
ScoreFlatClearBonus(g, totalCleared) ==
    5000 + (IF totalCleared > 0 THEN 200 ELSE 0)
    + WindowBonus(g) + StreakBonus(g) + (64 - Occupied(g))

calculateStrategyScore(g, totalCleared) ==
    5000 + (totalCleared * 200) + WindowBonus(g) + StreakBonus(g) + (64 - Occupied(g))

\* ----------------------------------------------------------------- inputs
EmptyBoard == [i \in Idx |-> [j \in Idx |-> 0]]
FullBoard  == [i \in Idx |-> [j \in Idx |-> 1]]
\* the full board with the cells of H emptied
BoardWithHoles(H) == [i \in Idx |-> [j \in Idx |-> IF <<i, j>> \in H THEN 0 ELSE 1]]
\* the empty board with the cells of F filled
BoardWithCells(F) == [i \in Idx |-> [j \in Idx |-> IF <<i, j>> \in F THEN 1 ELSE 0]]

\* piece patterns as processFigureSlot emits them: rows of 0/1
NoCell  == << <<0>> >>
Single  == << <<1>> >>
DominoH == << <<1, 1>> >>
DominoV == << <<1>>, <<1>> >>
Corner  == << <<1, 0>>, <<1, 1>> >>

Shapes == {NoCell, Single, DominoH, DominoV, Corner}

\* the lists of 1 .. n patterns over S
Lists(S, n) == UNION {[1 .. m -> S] : m \in 1 .. n}

\* Number of pocket boards beyond the first (a bound of the model).
MaxShift == 1

Diagonal == {<<i, i>> : i \in Idx}
\* every row and column has exactly one hole, on the diagonal
DiagHoles == BoardWithHoles(Diagonal)
\* the diagonal holes and a 2x2 pocket of holes at (s, s)
PocketBoard(s) == BoardWithHoles(Diagonal \cup {<<s, s + 1>>, <<s + 1, s>>})
\* row 0 filled but for its last cell, everything else empty
RowAlmostFull == BoardWithCells({<<0, j>> : j \in 0 .. (N - 2)})

\* the full board but for its last cell
LastHole == BoardWithHoles({<<N - 1, N - 1>>})

DenseBoards == {DiagHoles, LastHole} \cup {PocketBoard(s) : s \in 0 .. MaxShift}

\* The calls of suggestMoves explored.  The search visits N! * 64^N nodes, so
\*  - the sparse boards come with one pattern,
\*  - the dense boards with up to two arbitrary patterns, or with a pattern per
\*    slot when no pattern is the single cell (which fits every hole),
\*  - the full board with any list of up to a pattern per slot.
Inputs ==
    {[board |-> b, pieces |-> ps] :
        b \in {EmptyBoard, RowAlmostFull}, ps \in Lists(Shapes, 1)}
    \cup {[board |-> b, pieces |-> ps] :
        b \in DenseBoards,
        ps \in Lists(Shapes, NumSlots - 1) \cup Lists(Shapes \ {Single}, NumSlots)}
    \cup {[board |-> FullBoard, pieces |-> ps] : ps \in Lists(Shapes, NumSlots)}

\* ------------------------------------------------------------------- state
VARIABLES
    heap,          \* address -> 8x8 grid: the board arrays alive
    board,         \* suggestMoves' argument board (an address)
    pieces,        \* suggestMoves' argument pieces (patterns)
    givenBoard,    \* the grid the caller passed, as it was at the call
    validPieces,   \* line 399
    permutations,  \* line 412
    permIdx,       \* how many orderings forEach (line 441) has started
    stack,         \* the activations of solve, outermost first
    currentPath,   \* the path array shared by the activations of one ordering
    bestScore,     \* line 409
    bestSequence,  \* line 410: << >> is null, << path >> a reference to a copy
    pc,            \* "start", "search", "done"
    rendered,      \* what suggestionsList shows: "none", "sequence", "nosolution"
    renderCalls    \* number of calls of renderSuggestions

\* one call of calculateStrategyScore
VARIABLES
    scoreBoard,    \* its argument board (a grid)
    scoreCleared,  \* its argument totalCleared
    scoreValue,    \* its return value
    scorePc        \* "idle", "call", "return"

\* one call of kMeansCluster
VARIABLES
    samples,       \* its argument cells, each by its colour << r, g, b >>
    cA, cB,        \* the two centers
    assign,        \* the labels, one per sample
    round,         \* the loop variable i of the assignment rounds
    groupIds,      \* the groupId of the returned cells, in order
    kmPc           \* "idle", "call", "loop", "return"

\* one call of detectFigures
VARIABLES
    contours,      \* the blobs findContours gave for the slot processed last
    results,       \* the results array of detectFigures
    figPc          \* "idle", "call", "slots", "return"

\* the page: file selection and the callbacks it schedules
VARIABLES
    isProcessing,  \* line 14
    opencvLoaded,  \* window.opencvLoaded
    readers,       \* FileReader loads in flight (line 41)
    images,        \* Image loads in flight (line 39)
    timers,        \* processWithOpenCV timeouts pending (line 61)
    selections,    \* change events delivered so far
    outcome        \* how the last processWithOpenCV ended ("none": none yet)

solverVars == << heap, board, pieces, givenBoard, validPieces, permutations, permIdx,
                 stack, currentPath, bestScore, bestSequence, pc, rendered, renderCalls >>
scoreVars == << scoreBoard, scoreCleared, scoreValue, scorePc >>
kmVars == << samples, cA, cB, assign, round, groupIds, kmPc >>
figVars == << contours, results, figPc >>
appVars == << isProcessing, opencvLoaded, readers, images, timers, selections,
              outcome >>

vars == << solverVars, scoreVars, kmVars, figVars, appVars >>

\* the parts of the program that are not running
ScoreIdle ==
    scoreBoard = << >> /\ scoreCleared = 0 /\ scoreValue = 0 /\ scorePc = "idle"
KMeansIdle ==
    /\ samples = << >> /\ cA = << >> /\ cB = << >> /\ assign = << >>
    /\ round = 0 /\ groupIds = << >> /\ kmPc = "idle"
FiguresIdle == contours = << >> /\ results = << >> /\ figPc = "idle"
AppIdle ==
    /\ isProcessing = FALSE /\ opencvLoaded = FALSE /\ readers = 0 /\ images = 0
    /\ timers = 0 /\ selections = 0 /\ outcome = "none"
SolverIdle ==
    /\ heap = << >> /\ board = 0 /\ pieces = << >> /\ givenBoard = << >>
    /\ validPieces = << >> /\ permutations = << >> /\ permIdx = 0 /\ stack = << >>
    /\ currentPath = << >> /\ bestScore = 0 /\ bestSequence = << >>
    /\ pc = "idle" /\ rendered = "none" /\ renderCalls = 0

Null == << >>

\* The addresses reachable from the solver's variables.
Roots(b, st, path, best) ==
    {b} \cup {st[i].board : i \in 1 .. Len(st)}
        \cup {path[i].boardBefore : i \in 1 .. Len(path)}
        \cup (IF best = Null THEN {}
              ELSE {best[1][i].boardBefore : i \in 1 .. Len(best[1])})

\* Garbage collection: the heap restricted to the reachable boards.
Collect(h, live) == [a \in (DOMAIN h) \cap live |-> h[a]]

\* currentBoard.map(row => [...row]): a copy of the board at b at a fresh address
CopyBoard(h, b) ==
    LET a == Alloc(h)
    IN  [heap |-> [x \in DOMAIN h \cup {a} |-> IF x = a THEN h[b] ELSE h[x]], addr |-> a]

\* the snapshot recorded as boardBefore (line 430)
Snapshot(h, b) == CopyBoard(h, b)

\* pieceIndices.slice(1)
RestIndices(pieceIndices) == Tail(pieceIndices)

\* Mutant of Better: score >= bestScore, the last of equal scores wins.
BetterOrEqual(score, best) == score >= best

\* Mutant of Better: the comparison is missing, every complete sequence
\* replaces the best.
BetterAlways(score, best) == TRUE

\* score > bestScore
Better(score, best) == score > best

Frame(b, pieceIndices, totalCleared) ==
    [board |-> b, pieceIndices |-> pieceIndices, k |-> 0, totalCleared |-> totalCleared]

Top == stack[Len(stack)]
Pop(s) == SubSeq(s, 1, Len(s) - 1)

RECURSIVE ScanFromShort(_, _, _)
\* Mutant of ScanFrom: the loops stop one anchor early, (7, 7) is never tried.
ScanFromShort(g, pOffsets, k) ==
    IF k >= N * N - 1 THEN N * N
    ELSE IF canFit(g, pOffsets, k \div N, k % N) THEN k
    ELSE ScanFromShort(g, pOffsets, k + 1)

RECURSIVE ScanFrom(_, _, _)
\* the loops of lines 427-428 run from anchor number k (= 8r + c) on: the first
\* anchor at which the piece fits on grid g, or N * N when the loops run out
ScanFrom(g, pOffsets, k) ==
    IF k >= N * N THEN N * N
    ELSE IF canFit(g, pOffsets, k \div N, k % N) THEN k
    ELSE ScanFrom(g, pOffsets, k + 1)

\* the next anchor the top activation places its piece at (N * N: none)
NextFit == ScanFrom(heap[Top.board], validPieces[Top.pieceIndices[1] + 1], Top.k)

Init ==
    /\ \E inp \in Inputs :
          /\ heap = (0 :> inp.board)
          /\ givenBoard = inp.board
          /\ pieces = inp.pieces
    /\ board = 0
    /\ validPieces = << >>
    /\ permutations = << >>
    /\ permIdx = 0
    /\ stack = << >>
    /\ currentPath = << >>
    /\ bestScore = NegInfinity
    /\ bestSequence = Null
    /\ pc = "start"
    /\ rendered = "none"
    /\ renderCalls = 0
    /\ ScoreIdle /\ KMeansIdle /\ FiguresIdle /\ AppIdle

\* suggestMoves lines 399-412: filter, early return, set up the search
SuggestMoves ==
    /\ pc = "start"
    /\ validPieces' = ValidPieces(pieces)
    /\ IF Len(validPieces') = 0
       THEN /\ pc' = "done"
            /\ UNCHANGED permutations
       ELSE /\ pc' = "search"
            /\ permutations' = getPermutations(Keys(Len(validPieces')))
    /\ UNCHANGED << heap, board, pieces, givenBoard, permIdx, stack, currentPath,
                    bestScore, bestSequence, rendered, renderCalls >>
    /\ UNCHANGED << scoreVars, kmVars, figVars, appVars >>

\* permutations.forEach(pOrder => solve(board, pOrder, [], 0)): the next call
NextPermutation ==
    /\ pc = "search"
    /\ stack = << >>
    /\ permIdx < Len(permutations)
    /\ permIdx' = permIdx + 1
    /\ stack' = << Frame(board, permutations[permIdx + 1], 0) >>
    /\ currentPath' = << >>
    /\ UNCHANGED << heap, board, pieces, givenBoard, validPieces, permutations,
                    bestScore, bestSequence, pc, rendered, renderCalls >>
    /\ UNCHANGED << scoreVars, kmVars, figVars, appVars >>

\* solve, lines 427-434: the loop reaches the next anchor where the piece fits;
\* snapshot, applyMove, push the step, call solve on the next board
SolvePlace ==
    /\ pc = "search"
    /\ stack # << >>
    /\ Top.pieceIndices # << >>
    /\ NextFit < N * N
    /\ LET k        == NextFit
           r        == k \div N
           c        == k % N
           pIdx     == Top.pieceIndices[1]
           pOffsets == validPieces[pIdx + 1]
           snap     == Snapshot(heap, Top.board)
           mv       == applyMove(snap.heap, Top.board, pOffsets, r, c)
           step     == [pieceIdx |-> pIdx, row |-> r, col |-> c, cleared |-> mv.cleared,
                        boardBefore |-> snap.addr, offsets |-> pOffsets]
       IN  /\ currentPath' = Append(currentPath, step)
           /\ stack' = Append([stack EXCEPT ![Len(stack)].k = k + 1],
                              Frame(mv.board, RestIndices(Top.pieceIndices),
                                    Top.totalCleared + mv.cleared))
           /\ heap' = Collect(mv.heap, Roots(board, stack', currentPath', bestSequence))
    /\ UNCHANGED << board, pieces, givenBoard, validPieces, permutations, permIdx,
                    bestScore, bestSequence, pc, rendered, renderCalls >>
    /\ UNCHANGED << scoreVars, kmVars, figVars, appVars >>

\* solve, lines 415-422: a complete sequence is scored; return, and the caller
\* pops the step (line 435)
SolveLeaf ==
    /\ pc = "search"
    /\ stack # << >>
    /\ Top.pieceIndices = << >>
    /\ LET score == calculateStrategyScore(heap[Top.board], Top.totalCleared)
       IN  IF Better(score, bestScore)
           THEN /\ bestScore' = score
                /\ bestSequence' = << currentPath >>
           ELSE UNCHANGED << bestScore, bestSequence >>
    /\ stack' = Pop(stack)
    /\ currentPath' = IF Len(stack) > 1 THEN Pop(currentPath) ELSE currentPath
    /\ heap' = Collect(heap, Roots(board, stack', currentPath', bestSequence'))
    /\ UNCHANGED << board, pieces, givenBoard, validPieces, permutations, permIdx,
                    pc, rendered, renderCalls >>
    /\ UNCHANGED << scoreVars, kmVars, figVars, appVars >>

\* solve, lines 427-439: the loops end without another fitting anchor; return,
\* and the caller pops the step (line 435)
SolveReturn ==
    /\ pc = "search"
    /\ stack # << >>
    /\ Top.pieceIndices # << >>
    /\ NextFit = N * N
    /\ stack' = Pop(stack)
    /\ currentPath' = IF Len(stack) > 1 THEN Pop(currentPath) ELSE currentPath
    /\ heap' = Collect(heap, Roots(board, stack', currentPath', bestSequence))
    /\ UNCHANGED << board, pieces, givenBoard, validPieces, permutations, permIdx,
                    bestScore, bestSequence, pc, rendered, renderCalls >>
    /\ UNCHANGED << scoreVars, kmVars, figVars, appVars >>

\* renderSuggestions(bestSequence, validPieces.length), lines 442 and 549-585
RenderSuggestions ==
    /\ pc = "search"
    /\ stack = << >>
    /\ permIdx = Len(permutations)
    /\ rendered' = IF bestSequence # Null /\ Len(bestSequence[1]) = Len(validPieces)
                   THEN "sequence" ELSE "nosolution"
    /\ renderCalls' = renderCalls + 1
    /\ pc' = "done"
    /\ UNCHANGED << heap, board, pieces, givenBoard, validPieces, permutations, permIdx,
                    stack, currentPath, bestScore, bestSequence >>
    /\ UNCHANGED << scoreVars, kmVars, figVars, appVars >>

Next ==
    \/ SuggestMoves
    \/ NextPermutation
    \/ SolvePlace
    \/ SolveLeaf
    \/ SolveReturn
    \/ RenderSuggestions

Spec == Init /\ [][Next]_vars

\* ===================================================================
\* The statements checked.  The definitions below state the rules of the
\* game on grids (values), independently of the code's loops and heap.
\* ===================================================================
Range(f) == {f[i] : i \in DOMAIN f}

\* the cells a piece (a sequence of offsets) covers when anchored at (r, c)
CellsAt(offsets, r, c) == {<<r + o.dr, c + o.dc>> : o \in Range(offsets)}

\* every cell of the piece lies inside the grid and is empty
Legal(g, offsets, r, c) ==
    \A cell \in CellsAt(offsets, r, c) :
        /\ cell[1] \in Idx
        /\ cell[2] \in Idx
        /\ g[cell[1]][cell[2]] = 0

\* the rows / columns fully occupied once the cells are filled
RowsCompleted(g, cells) == {i \in Idx : \A j \in Idx : <<i, j>> \in cells \/ g[i][j] = 1}
ColsCompleted(g, cells) == {j \in Idx : \A i \in Idx : <<i, j>> \in cells \/ g[i][j] = 1}

\* the grid after the placement: fill, then clear the completed lines
Placed(g, cells) ==
    LET rows == RowsCompleted(g, cells)
        cols == ColsCompleted(g, cells)
    IN  [i \in Idx |-> [j \in Idx |->
            IF i \in rows \/ j \in cols THEN 0
            ELSE IF <<i, j>> \in cells THEN 1
            ELSE g[i][j]]]

LinesCleared(g, cells) ==
    Cardinality(RowsCompleted(g, cells)) + Cardinality(ColsCompleted(g, cells))

Last(s) == s[Len(s)]
StepCells(step) == CellsAt(step.offsets, step.row, step.col)

\* the top activation was just entered by a placement: its board is the
\* result of the last step of the path
JustPlaced ==
    /\ pc = "search"
    /\ stack # << >>
    /\ Top.k = 0
    /\ Len(stack) = Len(currentPath) + 1
    /\ currentPath # << >>

\* C3: canFit(b, piece, r, c) is true exactly when every cell of the piece
\* anchored at (r, c) is inside the 8x8 grid and empty on b (checked for the
\* board of every activation when it is entered, every piece and every anchor),
\* and every placement the solver applied was legal on the board it was
\* applied to.
C3_CanFitIffLegal ==
    /\ (pc = "search" /\ stack # << >> /\ Top.k = 0) =>
          \A i \in 1 .. Len(validPieces) : \A r \in Idx : \A c \in Idx :
              canFit(heap[Top.board], validPieces[i], r, c)
                  <=> Legal(heap[Top.board], validPieces[i], r, c)
    /\ JustPlaced =>
          LET step == Last(currentPath)
          IN  Legal(heap[step.boardBefore], step.offsets, step.row, step.col)

\* a placement was applied while, on the same board, some piece is refused
\* at one anchor for leaving the grid and at another for an occupied cell
C3_Witness ==
    /\ JustPlaced
    /\ \E i \in 1 .. Len(validPieces) : \E r \in Idx : \E c \in Idx :
          /\ ~ canFit(heap[Top.board], validPieces[i], r, c)
          /\ \E cell \in CellsAt(validPieces[i], r, c) :
                cell[1] \notin Idx \/ cell[2] \notin Idx
    /\ \E i \in 1 .. Len(validPieces) : \E r \in Idx : \E c \in Idx :
          /\ ~ canFit(heap[Top.board], validPieces[i], r, c)
          /\ CellsAt(validPieces[i], r, c) \subseteq Idx \X Idx

\* C4: the board applyMove returns is the board before with the piece cells
\* set to 1 and then every row and column that is full on that filled board
\* reset to 0; cleared = full rows + full columns (an intersection cell ends
\* at 0 and is counted in both); every other cell keeps its value.
C4_ApplyMoveFillsThenClears ==
    JustPlaced =>
        LET step   == Last(currentPath)
            before == heap[step.boardBefore]
            after  == heap[Top.board]
            cells  == StepCells(step)
            rows   == RowsCompleted(before, cells)
            cols   == ColsCompleted(before, cells)
        IN  /\ step.cleared = Cardinality(rows) + Cardinality(cols)
            /\ \A i \in Idx : \A j \in Idx :
                  /\ (i \in rows \/ j \in cols) => after[i][j] = 0
                  /\ (i \notin rows /\ j \notin cols /\ <<i, j>> \in cells)
                        => after[i][j] = 1
                  /\ (i \notin rows /\ j \notin cols /\ <<i, j>> \notin cells)
                        => after[i][j] = before[i][j]

\* a placement completed a row and a column at once, and left some filled
\* cell outside them untouched
C4_Witness ==
    /\ JustPlaced
    /\ LET step   == Last(currentPath)
           before == heap[step.boardBefore]
           cells  == StepCells(step)
           rows   == RowsCompleted(before, cells)
           cols   == ColsCompleted(before, cells)
       IN  /\ rows # {}
           /\ cols # {}
           /\ step.cleared >= 2
           /\ \E i \in Idx \ rows : \E j \in Idx \ cols : heap[Top.board][i][j] = 1

\* ---- every complete legal sequence, enumerated from the patterns
\* the offsets of a pattern, as a set
PatternCells(p) ==
    UNION {{[dr |-> r - 1, dc |-> c - 1] : c \in {x \in 1 .. Len(p[r]) : p[r][x] = 1}} :
              r \in 1 .. Len(p)}

\* the patterns with at least one occupied cell, in list order
NonEmpty(ps) == SelectSeq(ps, LAMBDA p : PatternCells(p) # {})

\* the cells pattern p covers when anchored at anchor number a (= 8 row + col)
Covered(p, a) == {<<(a \div N) + o.dr, (a % N) + o.dc>> : o \in PatternCells(p)}

LegalCells(g, cells) ==
    \A cell \in cells : cell[1] \in Idx /\ cell[2] \in Idx /\ g[cell[1]][cell[2]] = 0

\* all orderings of the indices 0 .. n-1
Orderings(n) ==
    {f \in [1 .. n -> 0 .. (n - 1)] : \A i \in 1 .. n : \A j \in 1 .. n : i # j => f[i] # f[j]}

RECURSIVE Completions(_, _, _, _, _)
\* the complete legal continuations from grid g with `total` lines cleared so
\* far, placing shapes[order[k]], shapes[order[k+1]], ...: their anchors and score
Completions(g, total, shapes, order, k) ==
    IF k > Len(order)
    THEN {[anchors |-> << >>, score |-> calculateStrategyScore(g, total)]}
    ELSE LET p == shapes[order[k] + 1]
         IN  UNION {
               LET cells == Covered(p, a)
               IN  {[anchors |-> << a >> \o t.anchors, score |-> t.score] :
                       t \in Completions(Placed(g, cells), total + LinesCleared(g, cells),
                                         shapes, order, k + 1)} :
               a \in {x \in 0 .. (N * N - 1) : LegalCells(g, Covered(p, x))}}

\* every ordering of all non-empty pieces with every choice of legal anchors
AllComplete(g, ps) ==
    LET shapes == NonEmpty(ps)
    IN  UNION {{[order |-> o, anchors |-> t.anchors, score |-> t.score] :
                   t \in Completions(g, 0, shapes, o, 1)} :
               o \in Orderings(Len(shapes))}

RECURSIVE FinalScores(_, _, _, _, _)
\* the scores of those continuations alone
FinalScores(g, total, shapes, order, k) ==
    IF k > Len(order)
    THEN {calculateStrategyScore(g, total)}
    ELSE LET p == shapes[order[k] + 1]
         IN  UNION {
               LET cells == Covered(p, a)
               IN  FinalScores(Placed(g, cells), total + LinesCleared(g, cells),
                               shapes, order, k + 1) :
               a \in {x \in 0 .. (N * N - 1) : LegalCells(g, Covered(p, x))}}

\* the scores of all complete legal sequences
AllScores(g, ps) ==
    LET shapes == NonEmpty(ps)
    IN  UNION {FinalScores(g, 0, shapes, o, 1) : o \in Orderings(Len(shapes))}

RECURSIVE Completable(_, _, _, _)
\* some complete legal continuation exists from grid g
Completable(g, shapes, order, k) ==
    \/ k > Len(order)
    \/ \E a \in 0 .. (N * N - 1) :
          /\ LegalCells(g, Covered(shapes[order[k] + 1], a))
          /\ Completable(Placed(g, Covered(shapes[order[k] + 1], a)), shapes, order, k + 1)

\* some ordering of the non-empty pieces has a complete legal assignment
SomeComplete(g, ps) ==
    \E o \in Orderings(Len(NonEmpty(ps))) : Completable(g, NonEmpty(ps), o, 1)

RECURSIVE SumCleared(_, _)
SumCleared(path, n) == IF n = 0 THEN 0 ELSE path[n].cleared + SumCleared(path, n - 1)

\* the solver has finished and shows a sequence
Reported == pc = "done" /\ rendered = "sequence"

\* the score of a recorded path: the scoring function on the board its last
\* step leaves and on the sum of the steps' cleared counts
PathScore(path) ==
    LET last == Last(path)
    IN  calculateStrategyScore(Placed(heap[last.boardBefore], StepCells(last)),
                               SumCleared(path, Len(path)))

\* C1: when the solver reports a sequence, its score (the scoring function on
\* its final board and summed cleared counts) is bestScore and is at least the
\* score of every complete legal sequence of the non-empty pieces.
C1_BestIsMaximal ==
    Reported =>
        /\ bestScore = PathScore(bestSequence[1])
        /\ \A x \in AllScores(givenBoard, pieces) : x <= bestScore

\* a sequence is reported although some complete legal sequence scores less
\* and the best differs between two orderings
C1_Witness ==
    /\ Reported
    /\ \E t \in AllComplete(givenBoard, pieces) : t.score < bestScore
    /\ \E o \in Orderings(Len(NonEmpty(pieces))) :
          LET cs == Completions(givenBoard, 0, NonEmpty(pieces), o, 1)
          IN  cs # {} /\ \A t \in cs : t.score < bestScore

\* C2: with at least one non-empty piece the solver shows "no solution" exactly
\* when no ordering has a complete legal assignment of anchors, and a sequence
\* otherwise; on the fully occupied board it shows "no solution".
C2_NoSolutionIffNoAssignment ==
    (pc = "done" /\ NonEmpty(pieces) # << >>) =>
        LET none == ~ SomeComplete(givenBoard, pieces)
        IN  /\ rendered = "nosolution" <=> none
            /\ rendered = "sequence" <=> ~ none
            /\ givenBoard = FullBoard => rendered = "nosolution"

\* a sequence is reported although one ordering of the pieces has no complete
\* legal assignment
C2_Witness ==
    /\ Reported
    /\ \E o \in Orderings(Len(NonEmpty(pieces))) :
          Completions(givenBoard, 0, NonEmpty(pieces), o, 1) = {}

\* ---- the order in which the search reaches the complete sequences
\* a <= b in the lexicographic order of equally long sequences of numbers
LexLeq(a, b) ==
    \/ a = b
    \/ \E i \in 1 .. Len(a) :
          /\ a[i] < b[i]
          /\ \A j \in 1 .. (i - 1) : a[j] = b[j]

\* ordering first, then the anchors depth by depth, each in row-major order
SearchKey(order, anchors) == order \o anchors

PathKey(path) ==
    SearchKey([i \in 1 .. Len(path) |-> path[i].pieceIdx],
              [i \in 1 .. Len(path) |-> N * path[i].row + path[i].col])

TopIsLeaf == pc = "search" /\ stack # << >> /\ Top.pieceIndices = << >>

\* C5: the best is replaced only by a complete sequence whose score strictly
\* exceeds it, so the sequence reported is, among the complete legal sequences
\* of maximal score, the first in the order: orderings lexicographically, then
\* anchors in row-major order depth by depth.
C5_FirstFoundWinsTies ==
    /\ [](Reported =>
            \A t \in AllComplete(givenBoard, pieces) :
                t.score >= bestScore =>
                    /\ t.score = bestScore
                    /\ LexLeq(PathKey(bestSequence[1]), SearchKey(t.order, t.anchors)))
    /\ [][bestSequence' # bestSequence =>
            /\ TopIsLeaf
            /\ calculateStrategyScore(heap[Top.board], Top.totalCleared) > bestScore
            /\ bestScore' = calculateStrategyScore(heap[Top.board], Top.totalCleared)
            /\ bestSequence' = << currentPath >>]_vars

\* a sequence is reported and another complete legal sequence, reached later,
\* has the same maximal score
C5_Witness ==
    /\ Reported
    /\ \E t \in AllComplete(givenBoard, pieces) :
          /\ t.score = bestScore
          /\ SearchKey(t.order, t.anchors) # PathKey(bestSequence[1])

\* ---- the recorded steps replayed
\* the steps of path replay: the first on grid g0, each later one on the grid
\* the previous step leaves, each with the lines its replay clears
Replays(path, g0) ==
    /\ heap[path[1].boardBefore] = g0
    /\ \A i \in 2 .. Len(path) :
          heap[path[i].boardBefore]
              = Placed(heap[path[i - 1].boardBefore], StepCells(path[i - 1]))
    /\ \A i \in 1 .. Len(path) :
          path[i].cleared = LinesCleared(heap[path[i].boardBefore], StepCells(path[i]))

\* C6: from the moment a best sequence is recorded until it is reported, its
\* first boardBefore equals the input board, each later boardBefore equals the
\* previous step replayed (fill, then clear) on the previous boardBefore, and
\* each cleared equals the lines cleared by replaying the step: later
\* placements do not alter the snapshots.
C6_SnapshotsReplay ==
    bestSequence # Null => Replays(bestSequence[1], givenBoard)

\* a reported sequence of several steps, one of which cleared lines, recorded
\* before the search went on to other placements
C6_Witness ==
    /\ Reported
    /\ Len(bestSequence[1]) >= 2
    /\ \E i \in 1 .. Len(bestSequence[1]) : bestSequence[1][i].cleared > 0
    /\ \E t \in AllComplete(givenBoard, pieces) :
          /\ SearchKey(t.order, t.anchors) # PathKey(bestSequence[1])
          /\ LexLeq(PathKey(bestSequence[1]), SearchKey(t.order, t.anchors))

\* ---- scenario A
\* a row or column (a function on Idx) has five empty cells in a row
HasRun5(line) == \E s \in 0 .. (N - 5) : \A j \in s .. (s + 4) : line[j] = 0

\* 30 for every row and every column with a run of five empty cells
Streaks(g) ==
    30 * Cardinality({i \in Idx : HasRun5([j \in Idx |-> g[i][j]])})
    + 30 * Cardinality({j \in Idx : HasRun5([i \in Idx |-> g[i][j]])})

ScenarioA == pc = "done" /\ givenBoard = EmptyBoard /\ pieces = << Single >>

\* the board the reported sequence ends on
FinalGrid == LET last == Last(bestSequence[1])
             IN  Placed(heap[last.boardBefore], StepCells(last))

\* C7 as stated: one step, 0 cleared lines, score 5000 + 1800 + streak
\* bonuses + 63.
C7_ScenarioA_AsStated ==
    ScenarioA =>
        /\ rendered = "sequence"
        /\ Len(bestSequence[1]) = 1
        /\ bestSequence[1][1].cleared = 0
        /\ bestScore = 5000 + 1800 + Streaks(FinalGrid) + 63

\* C7 amended: one step, 0 cleared lines, score 5000 + 1750 + streak bonuses
\* + 63: the placed cell lies in a 3x3 window, so 35 of the 36 windows are
\* open on the final board (35 x 50).
C7_ScenarioA ==
    ScenarioA =>
        /\ rendered = "sequence"
        /\ Len(bestSequence[1]) = 1
        /\ bestSequence[1][1].cleared = 0
        /\ bestScore = 5000 + 1750 + Streaks(FinalGrid) + 63

\* scenario A has been solved and a sequence is shown
C7_Witness == ScenarioA /\ rendered = "sequence" /\ bestScore > 5000

\* ---- filtering and delivery
\* C8 as stated: the search runs over the non-empty pieces only, a reported
\* sequence has one step per non-empty piece, and with no non-empty piece no
\* search is attempted and the result is "no solution".
C8_EmptyPiecesFiltered_AsStated ==
    pc = "done" =>
        /\ Len(validPieces) = Len(NonEmpty(pieces))
        /\ rendered = "sequence" => Len(bestSequence[1]) = Len(NonEmpty(pieces))
        /\ NonEmpty(pieces) # << >> =>
              (rendered = "sequence" <=> SomeComplete(givenBoard, pieces))
        /\ NonEmpty(pieces) = << >> =>
              /\ permIdx = 0
              /\ bestSequence = Null
              /\ rendered = "nosolution"

\* C9 as stated: every invocation delivers exactly one outcome, the sequence
\* or the "no solution" signal, to the presentation layer.
C9_ExactlyOneOutcome_AsStated ==
    /\ renderCalls <= 1
    /\ pc = "done" =>
          /\ renderCalls = 1
          /\ rendered \in {"sequence", "nosolution"}

\* ---- complete sequences
\* path has one step per non-empty piece, each piece index once
OneStepPerPiece(path) ==
    /\ Len(path) = Len(NonEmpty(pieces))
    /\ \A i \in 0 .. (Len(NonEmpty(pieces)) - 1) :
          Cardinality({k \in 1 .. Len(path) : path[k].pieceIdx = i}) = 1

\* the steps are in the order of application: each was applied to the board
\* the step before it left, the first to the input board
InOrderApplied(path) ==
    /\ heap[path[1].boardBefore] = givenBoard
    /\ \A i \in 2 .. Len(path) :
          heap[path[i].boardBefore]
              = Placed(heap[path[i - 1].boardBefore], StepCells(path[i - 1]))

\* C10: every sequence the solver scores as complete, and the recorded best,
\* has exactly one step per non-empty piece, each piece index exactly once,
\* the steps in the order the placements were applied (the order of the
\* ordering being searched).
C10_OneStepPerPieceInOrder ==
    /\ TopIsLeaf =>
          /\ OneStepPerPiece(currentPath)
          /\ InOrderApplied(currentPath)
          /\ \A i \in 1 .. Len(currentPath) :
                currentPath[i].pieceIdx = permutations[permIdx][i]
    /\ bestSequence # Null =>
          /\ OneStepPerPiece(bestSequence[1])
          /\ InOrderApplied(bestSequence[1])

\* a complete sequence of three steps is being scored, in an ordering other
\* than the first
C10_Witness ==
    /\ TopIsLeaf
    /\ Len(currentPath) = NumSlots
    /\ permIdx > 1
    /\ bestSequence # Null

\* ---- the solver's boards are never written to
\* the boards alive before and after a step are the same grids
LiveBoardsKept == \A a \in (DOMAIN heap) \cap (DOMAIN heap') : heap'[a] = heap[a]

\* C11: no step of the solver changes a board that exists: the input board
\* stays cell for cell what the caller passed, and the board of every
\* activation is the same before and after each recursive branch, so sibling
\* placements and later orderings are tried on the same board.
C11_BoardsNeverMutated ==
    /\ [](heap[board] = givenBoard)
    /\ [](\A d \in 1 .. Len(stack) :
            /\ d = 1 => stack[d].board = board
            /\ d > 1 => heap[stack[d].board]
                          = Placed(heap[currentPath[d - 1].boardBefore],
                                   StepCells(currentPath[d - 1])))
    /\ [][LiveBoardsKept]_vars

\* the search is back in a parent activation after a branch that placed and
\* cleared, in an ordering after the first, with the input board intact
C11_Witness ==
    /\ pc = "search"
    /\ stack # << >>
    /\ Top.k > 0
    /\ Len(stack) >= 2
    /\ permIdx > 1
    /\ currentPath[1].cleared > 0
    /\ heap[board] = givenBoard

\* ---- the scoring formula, stated on grids
\* the 3x3 windows (by top-left corner) that contain no occupied cell
OpenWindows(g) ==
    {w \in (0 .. (N - 3)) \X (0 .. (N - 3)) :
        \A i \in w[1] .. (w[1] + 2) : \A j \in w[2] .. (w[2] + 2) : g[i][j] = 0}

\* the length of the longest contiguous run of empty cells of a line
LongestEmptyRun(line) ==
    LET lens == {n \in 1 .. N : \E s \in 0 .. (N - n) : \A j \in s .. (s + n - 1) : line[j] = 0}
    IN  IF lens = {} THEN 0 ELSE CHOOSE n \in lens : \A m \in lens : m <= n

OccupiedCells(g) == {x \in Idx \X Idx : g[x[1]][x[2]] = 1}

ScoreFormula(g, t) ==
    5000 + 200 * t
    + 50 * Cardinality(OpenWindows(g))
    + 30 * Cardinality({i \in Idx : LongestEmptyRun([j \in Idx |-> g[i][j]]) >= 5})
    + 30 * Cardinality({j \in Idx : LongestEmptyRun([i \in Idx |-> g[i][j]]) >= 5})
    + (64 - Cardinality(OccupiedCells(g)))

\* ---- scenario B
ScenarioB == givenBoard = RowAlmostFull /\ pieces = << Single >>

\* the top activation was entered by placing at anchor (0, 7)
PlacedAtRowEnd ==
    JustPlaced /\ Last(currentPath).row = 0 /\ Last(currentPath).col = N - 1

\* C14: on the board with (0,0)..(0,6) filled and one single-cell piece, the
\* placement at (0,7) is legal, applying it clears row 0 with cleared = 1, and
\* the score of that sequence is the score of its final board with no line
\* cleared plus the 200 of the clear.
C14_ScenarioB ==
    /\ (ScenarioB /\ pc = "search") =>
          /\ canFit(givenBoard, validPieces[1], 0, N - 1)
          /\ Legal(givenBoard, validPieces[1], 0, N - 1)
    /\ (ScenarioB /\ PlacedAtRowEnd) =>
          /\ Last(currentPath).cleared = 1
          /\ \A j \in Idx : heap[Top.board][0][j] = 0
          /\ Top.pieceIndices = << >>
          /\ Top.totalCleared = 1
          /\ calculateStrategyScore(heap[Top.board], Top.totalCleared)
                = ScoreFormula(heap[Top.board], 0) + 200

\* scenario B's search has placed the piece at (0, 7)
C14_Witness == ScenarioB /\ PlacedAtRowEnd

\* C15: the board applyMove returns has no fully occupied row and no fully
\* occupied column, so detection on it finds no line; every board on which a
\* second or later piece is tried has none.
C15_NoFullLineAfterMove ==
    (pc = "search" /\ Len(stack) >= 2) =>
        LET g == heap[Top.board]
        IN  /\ ~ \E i \in Idx : \A j \in Idx : g[i][j] = 1
            /\ ~ \E j \in Idx : \A i \in Idx : g[i][j] = 1
            /\ FullRows(g) = {}
            /\ FullCols(g) = {}
            /\ ClearLines(g, FullRows(g), FullCols(g)) = g

\* a second piece is being tried on a board left by a placement that
\* completed a column but no row
C15_Witness ==
    /\ JustPlaced
    /\ Top.pieceIndices # << >>
    /\ LET step == Last(currentPath)
       IN  /\ ColsCompleted(heap[step.boardBefore], StepCells(step)) # {}
           /\ RowsCompleted(heap[step.boardBefore], StepCells(step)) = {}

\* ---- the orderings searched
Factorial(n) == IF n = 0 THEN 1 ELSE IF n = 1 THEN 1 ELSE IF n = 2 THEN 2 ELSE 6

\* a < b in the lexicographic order
LexLess(a, b) == a # b /\ LexLeq(a, b)

\* the list holds every ordering of 0 .. n-1 exactly once, in increasing
\* lexicographic order
EnumeratesOrderings(perms, n) ==
    /\ Len(perms) = Factorial(n)
    /\ {perms[i] : i \in 1 .. Len(perms)} = Orderings(n)
    /\ \A i \in 1 .. (Len(perms) - 1) : LexLess(perms[i], perms[i + 1])

\* the search is called once for the next ordering of the list, on the
\* input board with no step taken
StartsNextOrdering ==
    /\ stack = << >>
    /\ permIdx' = permIdx + 1
    /\ permIdx' <= Len(permutations)
    /\ stack' = << [board |-> board, pieceIndices |-> permutations[permIdx'],
                    k |-> 0, totalCleared |-> 0] >>
    /\ currentPath' = << >>
    /\ heap'[board] = givenBoard

\* C19: for n >= 1 non-empty pieces the list of orderings holds each of the n!
\* permutations of 0 .. n-1 exactly once in lexicographic order; the search is
\* started once for each, in that order, on the original board with a total of
\* 0 cleared lines, and the result is shown only after the last one.
C19_EveryOrderingSearchedOnce ==
    /\ [](pc = "search" => /\ Len(validPieces) >= 1
                           /\ EnumeratesOrderings(permutations, Len(validPieces)))
    /\ [](stack # << >> =>
             /\ permIdx \in 1 .. Len(permutations)
             /\ stack[1].pieceIndices = permutations[permIdx]
             /\ stack[1].board = board
             /\ stack[1].totalCleared = 0
             /\ heap[board] = givenBoard)
    /\ [][/\ permIdx' # permIdx => StartsNextOrdering
          /\ (Len(stack) = 0 /\ Len(stack') > 0) => permIdx' # permIdx
          /\ pc = "search" => permutations' = permutations
          /\ (pc = "search" /\ pc' = "done") => permIdx = Len(permutations)]_vars

\* the search of the last of six orderings has been started
C19_Witness ==
    /\ pc = "search"
    /\ Len(validPieces) = 3
    /\ permIdx = 6
    /\ Len(stack) = 1
    /\ stack[1].pieceIndices = << 2, 1, 0 >>
    /\ stack[1].k = 0

\* ===================================================================
\* calculateStrategyScore on its own: one call per behaviour, on boards that
\* put every run length of empty cells in a row and in a column.
\* ===================================================================
MaxCleared == 2

\* the cells a .. b of row r, and of column r
RowSegment(r, a, b) == {<<r, j>> : j \in a .. b}
ColSegment(r, a, b) == {<<i, r>> : i \in a .. b}

Segments ==
    {RowSegment(r, a, b) : r \in Idx, a \in Idx, b \in Idx}
    \cup {ColSegment(r, a, b) : r \in Idx, a \in Idx, b \in Idx}

\* row i has its first i cells empty: every run length from 0 to 7
Stairs == {x \in Idx \X Idx : x[2] >= x[1]}

ScoreBoards ==
    {BoardWithCells(F) : F \in Segments}
    \cup {BoardWithHoles(F) : F \in Segments}
    \cup DenseBoards
    \cup {EmptyBoard, FullBoard, RowAlmostFull, BoardWithCells(Stairs), BoardWithHoles(Stairs)}

ScoreInit ==
    /\ \E b \in ScoreBoards : \E t \in 0 .. MaxCleared :
          /\ scoreBoard = b
          /\ scoreCleared = t
    /\ scoreValue = 0
    /\ scorePc = "call"
    /\ SolverIdle /\ KMeansIdle /\ FiguresIdle /\ AppIdle

\* calculateStrategyScore(board, totalCleared), lines 445-471
CalculateStrategyScore ==
    /\ scorePc = "call"
    /\ scoreValue' = calculateStrategyScore(scoreBoard, scoreCleared)
    /\ scorePc' = "return"
    /\ UNCHANGED << scoreBoard, scoreCleared, solverVars, kmVars, figVars, appVars >>

ScoreNext == CalculateStrategyScore

ScoreSpec == ScoreInit /\ [][ScoreNext]_vars

\* C13: the value returned for a board and a number of cleared lines is
\* 5000 + 200 * totalCleared + 50 for each of the 36 3x3 windows without an
\* occupied cell + 30 for each row and 30 for each column whose longest run
\* of empty cells is at least 5 + (64 - number of occupied cells).
C13_ScoreFormula ==
    scorePc = "return" => scoreValue = ScoreFormula(scoreBoard, scoreCleared)

\* a score returned for a board with a row whose longest empty run is exactly
\* 5, a row whose longest is exactly 4, an open window and lines cleared
C13_Witness ==
    /\ scorePc = "return"
    /\ scoreCleared > 0
    /\ \E i \in Idx : LongestEmptyRun(RowLine(scoreBoard, i)) = 5
    /\ \E i \in Idx : LongestEmptyRun(RowLine(scoreBoard, i)) = 4
    /\ OpenWindows(scoreBoard) # {}
    /\ Cardinality(OpenWindows(scoreBoard)) < 36

\* C16: with the board fixed, a larger number of cleared lines gives a
\* strictly larger score: the value returned for (board, t1) is below the
\* value for (board, t2) for every t2 > t1.
C16_ScoreIncreasesWithClears ==
    scorePc = "return" =>
        \A t2 \in (scoreCleared + 1) .. (MaxCleared + 1) :
            calculateStrategyScore(scoreBoard, t2) > scoreValue

\* a score returned for a non-empty board with one line cleared
C16_Witness ==
    /\ scorePc = "return"
    /\ scoreCleared = 1
    /\ scoreBoard # EmptyBoard
    /\ calculateStrategyScore(scoreBoard, 2) = scoreValue + 200

\* ===================================================================
\* kMeansCluster, lines 591-617.  A sample is its colour << r, g, b >>.  A
\* center is kept as the sum and the count of the samples averaged, so that
\* distances compare exactly: |p - sum/count| is compared through
\* |count * p - sum|^2, cross-multiplied by the other center's count^2.
\* ===================================================================
MaxRounds == 10
MaxSamples == 4

Colours == {<< 0, 0, 0 >>, << 2, 2, 2 >>, << 4, 4, 4 >>, << 8, 0, 0 >>}

\* analyzeGrid line 239, times 1000
Brightness(c) == 299 * c[1] + 587 * c[2] + 114 * c[3]

\* sorted[0] of the stable sort by brightness: the first of the darkest
Darkest(cs) ==
    CHOOSE i \in 1 .. Len(cs) :
        /\ \A j \in 1 .. Len(cs) : Brightness(cs[i]) <= Brightness(cs[j])
        /\ \A j \in 1 .. (i - 1) : Brightness(cs[j]) > Brightness(cs[i])

\* sorted[sorted.length - 1]: the last of the brightest
Brightest(cs) ==
    CHOOSE i \in 1 .. Len(cs) :
        /\ \A j \in 1 .. Len(cs) : Brightness(cs[j]) <= Brightness(cs[i])
        /\ \A j \in (i + 1) .. Len(cs) : Brightness(cs[j]) < Brightness(cs[i])

\* a center at a sample's colour
CenterAt(c) == [sum |-> c, count |-> 1]

RECURSIVE SumGroup(_, _, _, _)
\* the forEach of avgPoint over pts[j .. ]: sum and count of the group
SumGroup(pts, asg, group, j) ==
    IF j > Len(pts) THEN [sum |-> << 0, 0, 0 >>, count |-> 0]
    ELSE LET rest == SumGroup(pts, asg, group, j + 1)
         IN  IF asg[j] = group
             THEN [sum |-> << pts[j][1] + rest.sum[1], pts[j][2] + rest.sum[2],
                              pts[j][3] + rest.sum[3] >>,
                   count |-> rest.count + 1]
             ELSE rest

\* count ? sum.map(s => s / count) : [0, 0, 0]
avgPoint(pts, asg, group) ==
    LET t == SumGroup(pts, asg, group, 1)
    IN  IF t.count # 0 THEN t ELSE CenterAt(<< 0, 0, 0 >>)

Square(x) == x * x

\* count^2 times the squared distance of Math.hypot(p - c)
ScaledDist2(p, c) ==
    Square(c.count * p[1] - c.sum[1]) + Square(c.count * p[2] - c.sum[2])
    + Square(c.count * p[3] - c.sum[3])

\* dA < dB
CloserToA(p, a, b) ==
    ScaledDist2(p, a) * Square(b.count) < ScaledDist2(p, b) * Square(a.count)

\* let next = dA < dB ? 0 : 1
NextLabel(p, a, b) == IF CloserToA(p, a, b) THEN 0 ELSE 1

\* the j loop of one round: the labels after it
Relabel(pts, a, b) == [j \in 1 .. Len(pts) |-> NextLabel(pts[j], a, b)]

\* Mutant of Changed: changed starts as true.
ChangedAlways(old, new) == TRUE

\* the flag changed at the end of the j loop
Changed(old, new) == \E j \in 1 .. Len(old) : old[j] # new[j]

\* new Array(cells.length).fill(0)
Zeros(n) == [j \in 1 .. n |-> 0]

\* the non-empty lists of at most n samples; analyzeGrid passes one sample per
\* board cell, so kMeansCluster is never called with an empty list
SampleLists(n) == UNION {[1 .. k -> Colours] : k \in 1 .. n}

KMeansInit ==
    /\ samples \in SampleLists(MaxSamples)
    /\ cA = << >> /\ cB = << >> /\ assign = << >> /\ round = 0 /\ groupIds = << >>
    /\ kmPc = "call"
    /\ SolverIdle /\ ScoreIdle /\ FiguresIdle /\ AppIdle

\* lines 592-596: the seeds and the initial labels; sorted[0].color throws
\* on an empty list
KMeansSeed ==
    /\ kmPc = "call"
    /\ IF Len(samples) = 0
       THEN /\ kmPc' = "error"
            /\ UNCHANGED << cA, cB, assign >>
       ELSE /\ cA' = CenterAt(samples[Darkest(samples)])
            /\ cB' = CenterAt(samples[Brightest(samples)])
            /\ assign' = Zeros(Len(samples))
            /\ kmPc' = "loop"
    /\ UNCHANGED << samples, round, groupIds, solverVars, scoreVars, figVars, appVars >>

\* lines 598-608: one assignment round; without a change the loop breaks and
\* the function returns, otherwise the centers move and i++ (the tenth round
\* is the last)
KMeansRound ==
    /\ kmPc = "loop"
    /\ round < MaxRounds
    /\ LET next == Relabel(samples, cA, cB)
       IN  /\ assign' = next
           /\ IF ~ Changed(assign, next)
              THEN /\ kmPc' = "return"
                   /\ groupIds' = next
                   /\ UNCHANGED << cA, cB, round >>
              ELSE /\ cA' = avgPoint(samples, next, 0)
                   /\ cB' = avgPoint(samples, next, 1)
                   /\ round' = round + 1
                   /\ IF round + 1 < MaxRounds
                      THEN kmPc' = "loop" /\ UNCHANGED groupIds
                      ELSE kmPc' = "return" /\ groupIds' = next
    /\ UNCHANGED << samples, solverVars, scoreVars, figVars, appVars >>

KMeansNext == KMeansSeed \/ KMeansRound

KMeansSpec == KMeansInit /\ [][KMeansNext]_vars

\* ---- the classifier's contract
RECURSIVE RunRounds(_, _, _, _, _)
\* the labels the loop ends with, as a function of its state
RunRounds(pts, asg, a, b, i) ==
    IF i >= MaxRounds THEN asg
    ELSE LET next == Relabel(pts, a, b)
         IN  IF next = asg THEN asg
             ELSE RunRounds(pts, next, avgPoint(pts, next, 0), avgPoint(pts, next, 1), i + 1)

\* the labels as a function of the samples alone
Labels(pts) ==
    RunRounds(pts, Zeros(Len(pts)), CenterAt(pts[Darkest(pts)]),
              CenterAt(pts[Brightest(pts)]), 0)

\* C12: the classifier runs at most 10 assignment rounds, returns after the
\* first round that changes no label, never fails, and returns one label per
\* sample, in order, each 0 or 1; the labels are a function of the samples.
C12_ClassifierTerminatesAndLabels ==
    /\ [](kmPc \in {"call", "loop", "return"})
    /\ [](round <= MaxRounds /\ (kmPc = "loop" => round < MaxRounds))
    /\ [](kmPc = "return" =>
             /\ Len(groupIds) = Len(samples)
             /\ \A j \in 1 .. Len(samples) : groupIds[j] \in {0, 1}
             /\ groupIds = assign
             /\ groupIds = Labels(samples))
    /\ [][kmPc = "loop" =>
             /\ assign' = assign => (kmPc' = "return" /\ round' = round)
             /\ (assign' # assign /\ round + 1 < MaxRounds) =>
                   (kmPc' = "loop" /\ round' = round + 1)]_vars

\* a run that returned after three rounds with both labels in use
C12_Witness ==
    /\ kmPc = "return"
    /\ round = 2
    /\ \E j \in 1 .. Len(groupIds) : groupIds[j] = 0
    /\ \E j \in 1 .. Len(groupIds) : groupIds[j] = 1

\* the sample is equally far from both centers
Tie(p, a, b) ==
    ScaledDist2(p, a) * Square(b.count) = ScaledDist2(p, b) * Square(a.count)

\* C18 as stated: in every round a sample equally far from both centers gets
\* label 0, the cluster seeded from the darkest cell.
C18_TieGoesToDarkest_AsStated ==
    [][kmPc = "loop" =>
          \A j \in 1 .. Len(samples) : Tie(samples[j], cA, cB) => assign'[j] = 0]_vars

\* ===================================================================
\* detectFigures and processFigureSlot, lines 256-392.  A contour is a blob
\* [x, y, width, height, area]: its bounding rectangle and contourArea.  The
\* thresholded slot image is white exactly on the blobs' rectangles, which do
\* not overlap, so countNonZero of a rectangle is the sum of its intersections
\* with them.  Quotients are kept as fractions and rounded exactly.
\* ===================================================================
MaxBlobs == 2

\* the slot image's size (arguments w, h)
SlotW == 360
SlotH == 200

Blob(x, y, width, height, area) ==
    [x |-> x, y |-> y, width |-> width, height |-> height, area |-> area]

\* what findContours may find in a slot, in the order it lists them
BlobTable ==
    << Blob(0, 0, 16, 1, 15),           \* under both gates, one side over 12
       Blob(300, 190, 14, 2, 25),       \* over the gate of 20, one side over 12
       Blob(340, 100, 7, 7, 42),        \* over the gate of 40, no side over 12
       Blob(10, 10, 40, 40, 1521),      \* one cell
       Blob(10, 60, 120, 40, 4641),     \* three cells in a row
       Blob(150, 10, 100, 100, 9801),   \* a solid 2x2 piece
       Blob(10, 120, 300, 13, 3588) >>  \* a long thin bar

\* the contours of a slot: the blobs with the given indices, in table order
ContoursOf(S) ==
    LET RECURSIVE From(_)
        From(i) == IF i > Len(BlobTable) THEN << >>
                   ELSE (IF i \in S THEN << BlobTable[i] >> ELSE << >>) \o From(i + 1)
    IN  From(1)

SlotContents ==
    {ContoursOf(S) : S \in {T \in SUBSET (1 .. Len(BlobTable)) : Cardinality(T) <= MaxBlobs}}

Min2(a, b) == IF a <= b THEN a ELSE b

\* Math.round(a / b) for a >= 0, b > 0
Round(a, b) == (2 * a + b) \div (2 * b)

RECURSIVE BoundingBox(_, _, _)
\* the first loop, lines 304-314, from contour j on; bb is
\* [minX, minY, maxX, maxY, foundAny]
BoundingBox(cs, j, bb) ==
    IF j > Len(cs) THEN bb
    ELSE IF cs[j].area > 40
         THEN BoundingBox(cs, j + 1,
                  [minX |-> Min2(bb.minX, cs[j].x),
                   minY |-> Min2(bb.minY, cs[j].y),
                   maxX |-> Max2(bb.maxX, cs[j].x + cs[j].width),
                   maxY |-> Max2(bb.maxY, cs[j].y + cs[j].height),
                   foundAny |-> TRUE])
         ELSE BoundingBox(cs, j + 1, bb)

\* dims of the blobs over the lower gate, filtered to d > 12 (lines 325-334)
Candidates(cs) ==
    UNION {{cs[j].width, cs[j].height} \cap {d \in 0 .. SlotW : d > 12} :
             j \in {i \in 1 .. Len(cs) : cs[i].area > 20}}

\* baseUnit as a fraction [num, den], lines 335-346
BaseUnit(cs) ==
    IF Candidates(cs) = {} THEN [num |-> 50, den |-> 1]
    ELSE LET smallest == Min(Candidates(cs))
         IN  IF smallest > 80
             THEN [num |-> smallest, den |-> Max2(1, Round(smallest, 50))]
             ELSE [num |-> smallest, den |-> 1]

\* Mutant of GridDim: Math.round(fig / baseUnit) without the clamps.
GridDimUnclamped(fig, unit) == Round(fig * unit.den, unit.num)

\* Math.max(1, Math.min(5, Math.round(fig / baseUnit))), lines 349-350
GridDim(fig, unit) == Max2(1, Min2(5, Round(fig * unit.den, unit.num)))

\* the pixels two rectangles share: [x, x + w) x [y, y + h)
Overlap(x, y, w, h, b) ==
    LET ow == Min2(x + w, b.x + b.width) - Max2(x, b.x)
        oh == Min2(y + h, b.y + b.height) - Max2(y, b.y)
    IN  IF ow > 0 /\ oh > 0 THEN ow * oh ELSE 0

\* cv.countNonZero(slotThresh.roi(rect))
CountNonZero(cs, x, y, w, h) ==
    SumTo([j \in 0 .. (Len(cs) - 1) |-> Overlap(x, y, w, h, cs[j + 1])], Len(cs) - 1)

\* one cell of the pattern, lines 356-371 (r, c 0-based): the central 70% of
\* the cell is sampled and the cell is set when more than 20% of it is white
SampleCell(cs, bb, figW, figH, rows, cols, r, c) ==
    LET x == (100 * cols * bb.minX + 100 * c * figW + 15 * figW) \div (100 * cols)
        y == (100 * rows * bb.minY + 100 * r * figH + 15 * figH) \div (100 * rows)
        w == (70 * figW) \div (100 * cols)
        h == (70 * figH) \div (100 * rows)
    IN  IF w * h > 0 /\ 5 * CountNonZero(cs, x, y, w, h) > w * h THEN 1 ELSE 0

\* processFigureSlot: pattern, rows and cols of its result
processFigureSlot(cs, w, h) ==
    LET bb == BoundingBox(cs, 1, [minX |-> w, minY |-> h, maxX |-> 0, maxY |-> 0,
                                  foundAny |-> FALSE])
    IN  IF bb.foundAny
        THEN LET figW == bb.maxX - bb.minX
                 figH == bb.maxY - bb.minY
                 unit == BaseUnit(cs)
                 finalCols == GridDim(figW, unit)
                 finalRows == GridDim(figH, unit)
             IN  [pattern |-> [r \in 1 .. finalRows |-> [c \in 1 .. finalCols |->
                                 SampleCell(cs, bb, figW, figH, finalRows, finalCols,
                                            r - 1, c - 1)]],
                  rows |-> finalRows,
                  cols |-> finalCols]
        ELSE [pattern |-> << << 1 >> >>, rows |-> 1, cols |-> 1]

FiguresInit ==
    /\ contours = << >>
    /\ results = << >>
    /\ figPc = "call"
    /\ SolverIdle /\ ScoreIdle /\ KMeansIdle /\ AppIdle

\* detectFigures lines 256-273: with no room under the board it returns []
DetectFigures ==
    /\ figPc = "call"
    /\ \E room \in BOOLEAN : figPc' = IF room THEN "slots" ELSE "return"
    /\ UNCHANGED << contours, results, solverVars, scoreVars, kmVars, appVars >>

\* one pass of the loop of lines 275-284: the next slot is processed
ProcessFigureSlot ==
    /\ figPc = "slots"
    /\ Len(results) < NumSlots
    /\ \E cs \in SlotContents :
          /\ contours' = cs
          /\ results' = Append(results, processFigureSlot(cs, SlotW, SlotH))
    /\ UNCHANGED << figPc, solverVars, scoreVars, kmVars, appVars >>

\* lines 286-289: the patterns of the results are returned
FiguresReturn ==
    /\ figPc = "slots"
    /\ Len(results) = NumSlots
    /\ figPc' = "return"
    /\ UNCHANGED << contours, results, solverVars, scoreVars, kmVars, appVars >>

FiguresNext == DetectFigures \/ ProcessFigureSlot \/ FiguresReturn

FiguresSpec == FiguresInit /\ [][FiguresNext]_vars

\* ---- the grids emitted
\* the grid is rows x cols of 0 / 1
IsGrid(res) ==
    /\ Len(res.pattern) = res.rows
    /\ \A r \in 1 .. res.rows :
          /\ Len(res.pattern[r]) = res.cols
          /\ \A c \in 1 .. res.cols : res.pattern[r][c] \in {0, 1}

\* round(a / b) by its definition: the integer n with n - 1/2 <= a / b < n + 1/2
Nearest(a, b) == CHOOSE n \in 0 .. (a + 1) : (2 * n - 1) * b <= 2 * a /\ 2 * a < (2 * n + 1) * b

MaxOf(S) == CHOOSE x \in S : \A y \in S : y <= x

\* width and height of the union of the rectangles of the blobs over the gate
\* of 40 (there is one)
FigureWidth(cs) ==
    LET big == {j \in 1 .. Len(cs) : cs[j].area > 40}
    IN  MaxOf({cs[j].x + cs[j].width : j \in big}) - Min({cs[j].x : j \in big})
FigureHeight(cs) ==
    LET big == {j \in 1 .. Len(cs) : cs[j].area > 40}
    IN  MaxOf({cs[j].y + cs[j].height : j \in big}) - Min({cs[j].y : j \in big})

Clamped(n) == IF n < 1 THEN 1 ELSE IF n > 5 THEN 5 ELSE n

\* C17: each slot processed adds exactly one result; its grid has between 1
\* and 5 rows and columns, namely round(figH / unit) and round(figW / unit)
\* clamped to [1, 5]; when no blob of the slot has an area over 40 the grid
\* is the single occupied cell.
C17_SlotGridWithinBounds ==
    /\ [](Len(results) <= NumSlots /\ (figPc = "return" => Len(results) \in {0, NumSlots}))
    /\ [](\A i \in 1 .. Len(results) :
             /\ results[i].rows \in 1 .. 5
             /\ results[i].cols \in 1 .. 5
             /\ IsGrid(results[i]))
    /\ []((figPc = "slots" /\ results # << >>) =>
             LET res == results[Len(results)]
                 unit == BaseUnit(contours)
             IN  IF \E j \in 1 .. Len(contours) : contours[j].area > 40
                 THEN /\ res.cols = Clamped(Nearest(FigureWidth(contours) * unit.den, unit.num))
                      /\ res.rows = Clamped(Nearest(FigureHeight(contours) * unit.den, unit.num))
                 ELSE res.pattern = << << 1 >> >> /\ res.rows = 1 /\ res.cols = 1)
    /\ [][figPc = "slots" /\ figPc' = "slots" => Len(results') = Len(results) + 1]_vars

\* the third slot has been processed; a slot gave a grid cut down to 5 columns,
\* another one the grid of the fallback
C17_Witness ==
    /\ figPc = "slots"
    /\ Len(results) = NumSlots
    /\ \E j \in 1 .. Len(contours) : contours[j].area > 40
    /\ GridDimUnclamped(FigureWidth(contours), BaseUnit(contours)) > 5
    /\ results[NumSlots].cols = 5
    /\ results[1].pattern = << << 1 >> >>
    /\ results[2].rows = 2

\* ===================================================================
\* The page, lines 13-62 and 93-158: change events of the file input and the
\* callbacks they schedule.  Each handler and callback runs to completion
\* before the next one starts; the order in which pending loads and timers
\* complete is open.
\* ===================================================================
MaxSelections == 3

\* the state after the script has run: lines 13-18
AppInit ==
    /\ AppIdle
    /\ SolverIdle /\ ScoreIdle /\ KMeansIdle /\ FiguresIdle

\* the page's loader sets window.opencvLoaded once OpenCV is ready
OpencvReady ==
    /\ ~ opencvLoaded
    /\ opencvLoaded' = TRUE
    /\ UNCHANGED << isProcessing, readers, images, timers, selections, outcome,
                    solverVars, scoreVars, kmVars, figVars >>

\* handleFileSelect, lines 24-43: dropped while isProcessing or without a
\* file, otherwise a FileReader load is started
HandleFileSelect ==
    /\ selections < MaxSelections
    /\ selections' = selections + 1
    /\ \E hasFile \in BOOLEAN :
          IF isProcessing \/ ~ hasFile
          THEN UNCHANGED readers
          ELSE readers' = readers + 1
    /\ UNCHANGED << isProcessing, opencvLoaded, images, timers, outcome,
                    solverVars, scoreVars, kmVars, figVars >>

\* reader.onload, lines 33-40: an Image load is started
ReaderOnload ==
    /\ readers > 0
    /\ readers' = readers - 1
    /\ images' = images + 1
    /\ UNCHANGED << isProcessing, opencvLoaded, timers, selections, outcome,
                    solverVars, scoreVars, kmVars, figVars >>

\* img.onload, lines 35-38: setupCanvas, then startProcessing (lines 58-62)
ImgOnload ==
    /\ images > 0
    /\ images' = images - 1
    /\ isProcessing' = TRUE
    /\ timers' = timers + 1
    /\ UNCHANGED << opencvLoaded, readers, selections, outcome,
                    solverVars, scoreVars, kmVars, figVars >>

\* how a call of processWithOpenCV can end
Outcomes ==
    IF ~ opencvLoaded THEN {"notLoaded"} ELSE {"noBoard", "error", "ok"}

\* Mutant of ProcessWithOpenCV: the early return of lines 94-98 leaves
\* isProcessing as it is.
ProcessWithoutEarlyReset ==
    /\ timers > 0
    /\ timers' = timers - 1
    /\ outcome' \in Outcomes
    /\ isProcessing' = IF outcome' = "notLoaded" THEN isProcessing ELSE FALSE
    /\ UNCHANGED << opencvLoaded, readers, images, selections,
                    solverVars, scoreVars, kmVars, figVars >>

\* processWithOpenCV, lines 93-158, when its timeout fires: every path ends
\* with isProcessing = false (line 97, or the finally block, line 150)
ProcessWithOpenCV ==
    /\ timers > 0
    /\ timers' = timers - 1
    /\ outcome' \in Outcomes
    /\ isProcessing' = FALSE
    /\ UNCHANGED << opencvLoaded, readers, images, selections,
                    solverVars, scoreVars, kmVars, figVars >>

AppNext ==
    \/ OpencvReady
    \/ HandleFileSelect
    \/ ReaderOnload
    \/ ImgOnload
    \/ ProcessWithOpenCV

AppSpec == AppInit /\ [][AppNext]_vars

\* ---- one run at a time
\* the accepted selections whose processing has not finished
InFlight == readers + images + timers

\* C20 as stated: at most one processWithOpenCV is pending at any time, and
\* from the acceptance of a selection until its processing has finished no
\* other selection is accepted.
C20_OneRunAtATime_AsStated ==
    /\ timers <= 1
    /\ InFlight <= 1

\* ---- the piece a step names
\* the step's pieceIdx, read as a position in the list passed to suggestMoves,
\* names the pattern whose cells the step places
NamesItsSlot(step) ==
    /\ step.pieceIdx + 1 \in 1 .. Len(pieces)
    /\ ToOffsets(pieces)[step.pieceIdx + 1] = step.offsets

\* C21 as stated: the pieceIdx of every step, on the current path and in the
\* sequence reported, is the position of the placed piece in the list passed to
\* the solver, also when patterns without an occupied cell precede it.
C21_PieceIdxIsSlot_AsStated ==
    /\ \A i \in 1 .. Len(currentPath) : NamesItsSlot(currentPath[i])
    /\ bestSequence # Null =>
          \A i \in 1 .. Len(bestSequence[1]) : NamesItsSlot(bestSequence[1][i])

\* ---- the page with its timers firing
\* A timeout set by setTimeout (line 61) fires once the running callback has
\* returned, and processWithOpenCV returns: its loops are bounded and the
\* search is finite.  File selections and the loads' completion are left to
\* the user and the browser, and get no fairness.
AppLiveSpec == AppInit /\ [][AppNext]_vars /\ WF_vars(ProcessWithOpenCV)

\* C22: a run that has started has its timeout pending; when processWithOpenCV
\* runs, on whichever of its paths, it leaves isProcessing false; so whenever
\* isProcessing is true it is false again later.
C22_ProcessingEventuallyEnds ==
    /\ [](isProcessing => timers > 0)
    /\ [][timers' < timers =>
             /\ ~ isProcessing'
             /\ outcome' \in {"notLoaded", "noBoard", "error", "ok"}
             /\ outcome' = "notLoaded" <=> ~ opencvLoaded]_vars
    /\ (isProcessing ~> ~ isProcessing)

\* a run that started has ended by an exception, and nothing is pending
C22_Witness ==
    /\ outcome = "error"
    /\ ~ isProcessing
    /\ InFlight = 0
    /\ selections > 0

====
